---- MODULE Spec2Model ----
(***************************************************************************)
(* Model of cari_app.py: the running-balance computation (ayar_katsayi,    *)
(* sign_has_gram, sign_iscilik_tutar, compute_running), the SQLite store   *)
(* (db_insert_many, db_get_transactions, db_delete_transaction), the Excel *)
(* import (_to_iso_date, import_from_excel) and the Tkinter handlers of    *)
(* App (import_excel, refresh, add_dialog/save, delete_selected).          *)
(*                                                                         *)
(* Text is a sequence of characters; a character is a one-element name     *)
(* ("a", " ", "7"); the non-ASCII letters of the Turkish labels are named  *)
(* "dotless_i" (U+0131), "s_cedilla" (U+015F), "S_CEDILLA" (U+015E),       *)
(* "o_umlaut" (U+00F6) and "O_UMLAUT" (U+00D6).  Python's None is the      *)
(* value None below.  A float is modelled by an integer: quantities in     *)
(* grams, amounts in currency units, fine weight (has) in thousandths of   *)
(* a gram, so that the coefficients 1.0, 0.925, 0.935 are 1000, 925, 935.  *)
(***************************************************************************)
EXTENDS Integers, Sequences, FiniteSets, TLC

VARIABLES
    transactions,    \* compute_running: the argument
    out,             \* compute_running: the returned list
    signs,           \* per input row <<sign_has_gram, sign_iscilik_tutar>>
    reordered,       \* a permutation of transactions
    out_reordered,   \* compute_running(reordered)
    pc,              \* position of the pure-function harness
    db,              \* table transactions: a set of rows
    next_id,         \* the next AUTOINCREMENT id
    customer,        \* App.customer: the combobox's current value
    values,          \* App.customer["values"]
    tree,            \* App.tree: the displayed rows
    msg,             \* the last messagebox shown
    dlg,             \* the open "Yeni Kayit" dialog's captured musteri
    last_op          \* the handler that ran last, with its argument

vars == <<transactions, out, signs, reordered, out_reordered, pc,
          db, next_id, customer, values, tree, msg, dlg, last_op>>

pureVars == <<transactions, out, signs, reordered, out_reordered, pc>>
appVars == <<db, next_id, customer, values, tree, msg, dlg, last_op>>

(***************************************************************************)
(* Bounds.                                                                 *)
(***************************************************************************)
MaxLen == 2        \* longest list given to compute_running
MaxGram == 2       \* largest gram of a single-row input
MaxTutar == 3      \* largest birim_fiyat_veya_nakit of a single-row input
MaxId == 2         \* rows ever inserted into the table
MaxBatch == 2      \* data rows of an imported sheet

(***************************************************************************)
(* Text.                                                                   *)
(***************************************************************************)
None == <<"<None>">>

\* x or ""
OrEmpty(v) == IF v = None THEN <<>> ELSE v

\* x or None
OrNone(v) == IF v = <<>> THEN None ELSE v

RECURSIVE LStrip(_)
LStrip(s) == IF s # <<>> /\ Head(s) = " " THEN LStrip(Tail(s)) ELSE s

RECURSIVE RStrip(_)
RStrip(s) ==
    IF s # <<>> /\ s[Len(s)] = " " THEN RStrip(SubSeq(s, 1, Len(s) - 1)) ELSE s

\* str.strip()
Strip(s) == RStrip(LStrip(s))

\* str.lower(), one character: "I" lowers to "i", never to "dotless_i"
LowerChar(c) ==
    CASE c = "A" -> "a" [] c = "B" -> "b" [] c = "D" -> "d" [] c = "E" -> "e"
      [] c = "G" -> "g" [] c = "H" -> "h" [] c = "I" -> "i" [] c = "L" -> "l"
      [] c = "M" -> "m" [] c = "N" -> "n" [] c = "O" -> "o" [] c = "P" -> "p"
      [] c = "R" -> "r" [] c = "S" -> "s" [] c = "T" -> "t" [] c = "U" -> "u"
      [] c = "Y" -> "y" [] c = "S_CEDILLA" -> "s_cedilla"
      [] c = "O_UMLAUT" -> "o_umlaut"
      [] OTHER -> c

Lower(s) == [k \in 1..Len(s) |-> LowerChar(s[k])]

\* str.upper(), one character
UpperChar(c) ==
    CASE c = "a" -> "A" [] c = "b" -> "B" [] c = "d" -> "D" [] c = "e" -> "E"
      [] c = "g" -> "G" [] c = "h" -> "H" [] c = "i" -> "I" [] c = "l" -> "L"
      [] c = "m" -> "M" [] c = "n" -> "N" [] c = "o" -> "O" [] c = "p" -> "P"
      [] c = "r" -> "R" [] c = "s" -> "S" [] c = "t" -> "T" [] c = "u" -> "U"
      [] c = "y" -> "Y" [] c = "dotless_i" -> "I"
      [] c = "s_cedilla" -> "S_CEDILLA" [] c = "o_umlaut" -> "O_UMLAUT"
      [] OTHER -> c

Upper(s) == [k \in 1..Len(s) |-> UpperChar(s[k])]

(***************************************************************************)
(* Hesaplama.                                                              *)
(***************************************************************************)
\* the coefficient with "pure" listed beside "has"
ayar_katsayi_pure(ayar) ==
    IF ayar = None \/ ayar = <<>> THEN 0
    ELSE LET a == Lower(Strip(ayar)) IN
         IF a \in {<<"h","a","s">>, <<"p","u","r","e">>} THEN 1000
         ELSE IF a \in {<<"9","2","5">>, <<"0",".","9","2","5">>} THEN 925
         ELSE IF a \in {<<"9","3","5">>, <<"0",".","9","3","5">>} THEN 935
         ELSE 0

\* the coefficient in thousandths
ayar_katsayi(ayar) ==
    IF ayar = None \/ ayar = <<>> THEN 0
    ELSE LET a == Lower(Strip(ayar)) IN
         IF a = <<"h","a","s">> THEN 1000
         ELSE IF a \in {<<"9","2","5">>, <<"0",".","9","2","5">>} THEN 925
         ELSE IF a \in {<<"9","3","5">>, <<"0",".","9","3","5">>} THEN 935
         ELSE 0

sign_has_gram(islem_turu) ==
    LET t == Lower(Strip(OrEmpty(islem_turu))) IN
    IF t \in {<<"s","a","t","dotless_i","s_cedilla">>, <<"s","a","t","i","s">>,
              <<"o_umlaut","d","e","m","e">>, <<"o","d","e","m","e">>}
    THEN 1 ELSE -1

\* the monetary sign with "odeme" forgotten
sign_iscilik_tutar_no_odeme(islem_turu) ==
    LET t == Lower(Strip(OrEmpty(islem_turu))) IN
    IF t \in {<<"s","a","t","dotless_i","s_cedilla">>, <<"s","a","t","i","s">>} THEN 1
    ELSE IF t \in {<<"a","l","dotless_i","s_cedilla">>, <<"a","l","i","s">>} THEN -1
    ELSE IF t = <<"o_umlaut","d","e","m","e">> THEN 1
    ELSE -1

sign_iscilik_tutar(islem_turu) ==
    LET t == Lower(Strip(OrEmpty(islem_turu))) IN
    IF t \in {<<"s","a","t","dotless_i","s_cedilla">>, <<"s","a","t","i","s">>} THEN 1
    ELSE IF t \in {<<"a","l","dotless_i","s_cedilla">>, <<"a","l","i","s">>} THEN -1
    ELSE IF t \in {<<"o_umlaut","d","e","m","e">>, <<"o","d","e","m","e">>} THEN 1
    ELSE -1

\* compute_running, line 186: the normalised currency label
doviz_of(tx) == Upper(Strip(OrEmpty(tx.iscilik_doviz)))

\* compute_running, line 189
has_of(tx) == tx.gram * ayar_katsayi(tx.ayar) * sign_has_gram(tx.islem_turu)

\* the weight balance overwritten instead of accumulated
next_bakiye_has_overwrite(bakiye_has, has) == has

\* compute_running, line 190
next_bakiye_has(bakiye_has, has) == bakiye_has + has

\* the flat amount used for every type
iscilik_tutar_flat(tx) == sign_iscilik_tutar(tx.islem_turu) * tx.birim_fiyat_veya_nakit

\* compute_running, lines 193-196
iscilik_tutar_of(tx) ==
    IF Lower(Strip(OrEmpty(tx.islem_turu)))
         \in {<<"s","a","t","dotless_i","s_cedilla">>, <<"s","a","t","i","s">>,
              <<"a","l","dotless_i","s_cedilla">>, <<"a","l","i","s">>}
    THEN sign_iscilik_tutar(tx.islem_turu) * tx.gram * tx.birim_fiyat_veya_nakit
    ELSE sign_iscilik_tutar(tx.islem_turu) * tx.birim_fiyat_veya_nakit

\* the EUR branch also taken by a USD row
next_bakiye_doviz_usd_leaks(b, doviz, iscilik_tutar) ==
    [usd |-> IF doviz = <<"U","S","D">> THEN b.usd + iscilik_tutar ELSE b.usd,
     eur |-> IF doviz \in {<<"E","U","R">>, <<"U","S","D">>}
             THEN b.eur + iscilik_tutar ELSE b.eur,
     tl  |-> IF doviz = <<"T","L">> THEN b.tl + iscilik_tutar ELSE b.tl]

\* a final else branch that books every other label on TL
next_bakiye_doviz_else_tl(b, doviz, iscilik_tutar) ==
    [usd |-> IF doviz = <<"U","S","D">> THEN b.usd + iscilik_tutar ELSE b.usd,
     eur |-> IF doviz = <<"E","U","R">> THEN b.eur + iscilik_tutar ELSE b.eur,
     tl  |-> IF doviz \notin {<<"U","S","D">>, <<"E","U","R">>}
             THEN b.tl + iscilik_tutar ELSE b.tl]

\* the TL branch also taken by the label TRY
next_bakiye_doviz_try(b, doviz, iscilik_tutar) ==
    [usd |-> IF doviz = <<"U","S","D">> THEN b.usd + iscilik_tutar ELSE b.usd,
     eur |-> IF doviz = <<"E","U","R">> THEN b.eur + iscilik_tutar ELSE b.eur,
     tl  |-> IF doviz \in {<<"T","L">>, <<"T","R","Y">>}
             THEN b.tl + iscilik_tutar ELSE b.tl]

\* compute_running, lines 198-203
next_bakiye_doviz(b, doviz, iscilik_tutar) ==
    IF doviz = <<"U","S","D">> THEN [b EXCEPT !.usd = @ + iscilik_tutar]
    ELSE IF doviz = <<"E","U","R">> THEN [b EXCEPT !.eur = @ + iscilik_tutar]
    ELSE IF doviz = <<"T","L">> THEN [b EXCEPT !.tl = @ + iscilik_tutar]
    ELSE b

\* compute_running, lines 205-212: dict(tx) with the six computed fields
emit_row(tx, iscilik_tutar, has, bakiye_has, b) ==
    [id |-> tx.id, tarih |-> tx.tarih, musteri |-> tx.musteri,
     islem_turu |-> tx.islem_turu, ayar |-> tx.ayar, gram |-> tx.gram,
     iscilik_doviz |-> tx.iscilik_doviz,
     birim_fiyat_veya_nakit |-> tx.birim_fiyat_veya_nakit,
     iscilik_tutar |-> iscilik_tutar, has_gram |-> has,
     bakiye_has |-> bakiye_has,
     bakiye_usd |-> b.usd, bakiye_eur |-> b.eur, bakiye_tl |-> b.tl]

\* the loop of compute_running from row k on, with the accumulators so far
RECURSIVE running_from(_, _, _, _, _)
running_from(txs, k, bakiye_has, b, acc) ==
    IF k > Len(txs) THEN acc
    ELSE LET tx == txs[k]
             has == has_of(tx)
             bh == next_bakiye_has(bakiye_has, has)
             it == iscilik_tutar_of(tx)
             nb == next_bakiye_doviz(b, doviz_of(tx), it)
         IN running_from(txs, k + 1, bh, nb,
                         Append(acc, emit_row(tx, it, has, bh, nb)))

compute_running(txs) ==
    running_from(txs, 1, 0, [usd |-> 0, eur |-> 0, tl |-> 0], <<>>)

(***************************************************************************)
(* The inputs of the pure functions.                                       *)
(***************************************************************************)
\* islem_turu labels: the canonical types in the spellings the code lists,
\* in other letter cases and paddings, and labels it does not list
TypeLabels ==
    {<<"S","a","t","dotless_i","s_cedilla">>,       \* "Satis" with U+0131, U+015F
     <<"s","a","t","i","s">>,
     <<" ","S","A","T","I","S"," ">>,
     <<"S","A","T","I","S_CEDILLA">>,               \* lowers to s-a-t-i-U+015F
     <<"A","l","dotless_i","s_cedilla">>,
     <<"a","l","i","s">>,
     <<"O_UMLAUT","d","e","m","e">>,
     <<"O","D","E","M","E">>,
     <<"T","a","h","s","i","l","a","t">>,
     <<"R","e","t","u","r","n">>,
     <<>>}

AyarLabels ==
    {<<"H","a","s">>, <<" ","H","A","S"," ">>, <<"p","u","r","e">>,
     <<"P","u","r","e">>, <<"9","2","5">>, <<"0",".","9","2","5">>,
     <<"9","3","5">>, <<" ","0",".","9","3","5">>, <<"7","5","0">>, <<>>}

DovizLabels ==
    {<<"U","S","D">>, <<"u","s","d">>, <<" ","E","u","r"," ">>, <<"T","L">>,
     <<"t","l">>, <<"T","R","Y">>, <<"t","r","y">>, <<"G","B","P">>, None}

\* the labels of the rows of the longer lists
SeqTypeLabels == {<<"S","a","t","dotless_i","s_cedilla">>, <<"T","a","h","s","i","l","a","t">>}
SeqAyarLabels == {<<"H","a","s">>, <<>>}
SeqGram == 2
SeqDovizLabels ==
    {<<"u","s","d">>, <<"E","U","R">>, <<"T","L">>, <<"T","R","Y">>, <<"G","B","P">>, None}
SeqTutar == 3

Date0 == <<"2","0","2","4","-","0","1","-","0","5">>
CustA == <<"A">>
CustB == <<"B">>

Tx(id, islem_turu, ayar, gram, doviz, tutar) ==
    [id |-> id, tarih |-> Date0, musteri |-> CustA, islem_turu |-> islem_turu,
     ayar |-> ayar, gram |-> gram, iscilik_doviz |-> doviz,
     birim_fiyat_veya_nakit |-> tutar]

SingleRowInputs ==
    {<<Tx(1, t, a, g, d, i)>> :
        t \in TypeLabels, a \in AyarLabels, g \in 0..MaxGram,
        d \in DovizLabels, i \in 0..MaxTutar}

SeqRows ==
    {Tx(0, t, a, SeqGram, d, SeqTutar) :
        t \in SeqTypeLabels, a \in SeqAyarLabels, d \in SeqDovizLabels}

\* the lists of n rows, the k-th with id k
ListsOf(n) == {[k \in 1..n |-> [f[k] EXCEPT !.id = k]] : f \in [1..n -> SeqRows]}

SeqInputs == UNION {ListsOf(n) : n \in {0} \cup 2..MaxLen}

Perms(n) == {p \in [1..n -> 1..n] : \A i, j \in 1..n : p[i] = p[j] => i = j}

NoOp == [name |-> "none", id |-> 0, pos |-> 0, failed |-> FALSE, good |-> 0]

AppIdle ==
    /\ db = {}
    /\ next_id = 1
    /\ customer = <<>>
    /\ values = <<>>
    /\ tree = <<>>
    /\ msg = "none"
    /\ dlg = None
    /\ last_op = NoOp

InitFold ==
    /\ transactions \in SingleRowInputs \cup SeqInputs
    /\ out = <<>>
    /\ signs = <<>>
    /\ reordered = <<>>
    /\ out_reordered = <<>>
    /\ pc = "input"
    /\ AppIdle

\* a caller applies compute_running to its list
Compute ==
    /\ pc = "input"
    /\ out' = compute_running(transactions)
    /\ pc' = "computed"
    /\ UNCHANGED <<transactions, signs, reordered, out_reordered>>
    /\ UNCHANGED appVars

\* both sign rules applied to the type of every row
ResolveSigns ==
    /\ pc = "computed"
    /\ signs' = [k \in 1..Len(transactions) |->
                    <<sign_has_gram(transactions[k].islem_turu),
                      sign_iscilik_tutar(transactions[k].islem_turu)>>]
    /\ pc' = "signed"
    /\ UNCHANGED <<transactions, out, reordered, out_reordered>>
    /\ UNCHANGED appVars

\* compute_running applied to a permutation of the same rows
Reorder ==
    /\ pc = "signed"
    /\ \E p \in Perms(Len(transactions)) :
          /\ reordered' = [k \in 1..Len(transactions) |-> transactions[p[k]]]
          /\ out_reordered' = compute_running(reordered')
    /\ pc' = "reordered"
    /\ UNCHANGED <<transactions, out, signs>>
    /\ UNCHANGED appVars

NextFold == Compute \/ ResolveSigns \/ Reorder

SpecFold == InitFold /\ [][NextFold]_vars

(***************************************************************************)
(* Text order, dates and numbers.                                          *)
(***************************************************************************)
IsDigit(c) == c \in {"0","1","2","3","4","5","6","7","8","9"}

DigitVal(c) ==
    CASE c = "0" -> 0 [] c = "1" -> 1 [] c = "2" -> 2 [] c = "3" -> 3
      [] c = "4" -> 4 [] c = "5" -> 5 [] c = "6" -> 6 [] c = "7" -> 7
      [] c = "8" -> 8 [] c = "9" -> 9

DigitChar(n) == <<"0","1","2","3","4","5","6","7","8","9">>[n + 1]

\* the code point of a character of a stored tarih or musteri
CharCode(c) ==
    CASE c = " " -> 32 [] c = "-" -> 45 [] c = "." -> 46 [] c = "/" -> 47
      [] IsDigit(c) -> 48 + DigitVal(c)
      [] c = "A" -> 65 [] c = "B" -> 66
      [] OTHER -> 127

\* a < b in SQLite's BINARY collation of TEXT
RECURSIVE TextLess(_, _)
TextLess(a, b) ==
    IF b = <<>> THEN FALSE
    ELSE IF a = <<>> THEN TRUE
    ELSE IF Head(a) # Head(b) THEN CharCode(Head(a)) < CharCode(Head(b))
    ELSE TextLess(Tail(a), Tail(b))

RECURSIVE NumberOf(_)
NumberOf(digits) ==
    IF digits = <<>> THEN 0
    ELSE 10 * NumberOf(SubSeq(digits, 1, Len(digits) - 1)) + DigitVal(digits[Len(digits)])

AllDigits(f) == \A k \in 1..Len(f) : IsDigit(f[k])

\* str.split(sep) on a one-character separator
RECURSIVE Split(_, _, _)
Split(s, sep, cur) ==
    IF s = <<>> THEN <<cur>>
    ELSE IF Head(s) = sep THEN <<cur>> \o Split(Tail(s), sep, <<>>)
    ELSE Split(Tail(s), sep, Append(cur, Head(s)))

\* the directive %Y of strptime: \d\d\d\d
MatchY(f) == Len(f) = 4 /\ AllDigits(f)

\* the directive %m of strptime: 1[0-2]|0[1-9]|[1-9]
MatchM(f) ==
    /\ Len(f) \in {1, 2}
    /\ AllDigits(f)
    /\ NumberOf(f) \in 1..12

\* the directive %d of strptime: 3[01]|[12]\d|0[1-9]|[1-9]| [1-9]
MatchD(f) ==
    \/ Len(f) \in {1, 2} /\ AllDigits(f) /\ NumberOf(f) \in 1..31
    \/ Len(f) = 2 /\ f[1] = " " /\ IsDigit(f[2]) /\ f[2] # "0"

DayOf(f) == IF f[1] = " " THEN DigitVal(f[2]) ELSE NumberOf(f)

IsLeap(y) == (y % 4 = 0 /\ y % 100 # 0) \/ y % 400 = 0

DaysIn(y, m) ==
    IF m = 2 THEN (IF IsLeap(y) THEN 29 ELSE 28)
    ELSE IF m \in {4, 6, 9, 11} THEN 30 ELSE 31

NoDate == [ok |-> FALSE, y |-> 0, m |-> 0, d |-> 0]

\* the date of three matched fields, when there is such a day
DateOf(fy, fm, fd) ==
    IF MatchY(fy) /\ MatchM(fm) /\ MatchD(fd)
         /\ NumberOf(fy) >= 1 /\ DayOf(fd) <= DaysIn(NumberOf(fy), NumberOf(fm))
    THEN [ok |-> TRUE, y |-> NumberOf(fy), m |-> NumberOf(fm), d |-> DayOf(fd)]
    ELSE NoDate

\* datetime.strptime(s, fmt) for the three formats of the program;
\* ok is FALSE where strptime raises
strptime(s, fmt) ==
    LET sep == IF fmt = "%d.%m.%Y" THEN "." ELSE IF fmt = "%d/%m/%Y" THEN "/" ELSE "-"
        f == Split(s, sep, <<>>)
    IN IF Len(f) # 3 THEN NoDate
       ELSE IF fmt = "%Y-%m-%d" THEN DateOf(f[1], f[2], f[3])
       ELSE DateOf(f[3], f[2], f[1])

Pad2(n) == <<DigitChar(n \div 10), DigitChar(n % 10)>>

\* date.isoformat()
isoformat(y, m, d) ==
    <<DigitChar(y \div 1000), DigitChar((y \div 100) % 10),
      DigitChar((y \div 10) % 10), DigitChar(y % 10)>>
        \o <<"-">> \o Pad2(m) \o <<"-">> \o Pad2(d)

\* date.today()
Today == [y |-> 2024, m |-> 3, d |-> 15]

\* a cell of the sheet: empty, a date, a number or a text
EmptyCell == [kind |-> "none", y |-> 0, m |-> 0, d |-> 0, n |-> 0, text |-> <<>>]
DateCell(y, m, d) == [EmptyCell EXCEPT !.kind = "date", !.y = y, !.m = m, !.d = d]
NumCell(n) == [EmptyCell EXCEPT !.kind = "num", !.n = n]
TextCell(t) == [EmptyCell EXCEPT !.kind = "text", !.text = t]

\* bool(v) of a cell value
Truthy(v) ==
    \/ v.kind = "date"
    \/ v.kind = "num" /\ v.n # 0
    \/ v.kind = "text" /\ v.text # <<>>

_to_iso_date(v) ==
    IF v.kind = "none" \/ (v.kind = "text" /\ v.text = <<>>)
    THEN isoformat(Today.y, Today.m, Today.d)
    ELSE IF v.kind = "date" THEN isoformat(v.y, v.m, v.d)
    ELSE LET s == Strip(v.text)
             a == strptime(s, "%d.%m.%Y")
             b == strptime(s, "%d/%m/%Y")
             c == strptime(s, "%Y-%m-%d")
         IN IF v.kind = "text" /\ a.ok THEN isoformat(a.y, a.m, a.d)
            ELSE IF v.kind = "text" /\ b.ok THEN isoformat(b.y, b.m, b.d)
            ELSE IF v.kind = "text" /\ c.ok THEN isoformat(c.y, c.m, c.d)
            ELSE isoformat(Today.y, Today.m, Today.d)

\* str.replace(",", ".")
ReplaceComma(s) == [k \in 1..Len(s) |-> IF s[k] = "," THEN "." ELSE s[k]]

\* float(text): digits, then possibly a point and zeros (the values an integer
\* of the model can hold); ok is FALSE where float raises
ParseFloat(text) ==
    LET s == Strip(text)
        f == Split(s, ".", <<>>)
    IN IF Len(f) \in {1, 2} /\ f[1] # <<>> /\ AllDigits(f[1])
            /\ (Len(f) = 2 => \A k \in 1..Len(f[2]) : f[2][k] = "0")
       THEN [ok |-> TRUE, n |-> NumberOf(f[1])]
       ELSE [ok |-> FALSE, n |-> 0]

\* float(v or 0) of a cell value
ToFloat(v) ==
    IF ~Truthy(v) THEN [ok |-> TRUE, n |-> 0]
    ELSE IF v.kind = "num" THEN [ok |-> TRUE, n |-> v.n]
    ELSE IF v.kind = "text" THEN ParseFloat(v.text)
    ELSE [ok |-> FALSE, n |-> 0]

\* str(n) of a positive integer
RECURSIVE NumText(_)
NumText(n) == IF n < 10 THEN <<DigitChar(n)>> ELSE Append(NumText(n \div 10), DigitChar(n % 10))

\* str(v or "").strip() of a text or number cell
CellText(v) ==
    IF v.kind = "text" THEN Strip(v.text)
    ELSE IF v.kind = "num" /\ v.n > 0 THEN NumText(v.n)
    ELSE <<>>

(***************************************************************************)
(* DB.                                                                     *)
(***************************************************************************)
\* the tuple db_insert_many builds of a row (lines 59-69)
StoredRow(id, r) ==
    [id |-> id, tarih |-> r.tarih, musteri |-> r.musteri,
     islem_turu |-> r.islem_turu, ayar |-> r.ayar,
     gram |-> ToFloat(r.gram).n,
     iscilik_doviz |-> OrNone(r.iscilik_doviz),
     birim_fiyat_veya_nakit |-> ToFloat(r.birim_fiyat_veya_nakit).n]

Convertible(r) == ToFloat(r.gram).ok /\ ToFloat(r.birim_fiyat_veya_nakit).ok

\* the rows before the first one whose conversion raises are committed
db_insert_many_partial(table, first_id, rows) ==
    LET bad == {k \in 1..Len(rows) : ~Convertible(rows[k])}
        n == IF bad = {} THEN Len(rows)
             ELSE (CHOOSE k \in bad : \A j \in bad : k <= j) - 1
    IN [ok |-> bad = {},
        db |-> table \cup {StoredRow(first_id + k - 1, rows[k]) : k \in 1..n},
        next_id |-> first_id + n]

\* the list of tuples is built first: a float() that raises leaves the table
\* as it was; otherwise every row is inserted under the next ids
db_insert_many(table, first_id, rows) ==
    IF \E k \in 1..Len(rows) : ~Convertible(rows[k])
    THEN [ok |-> FALSE, db |-> table, next_id |-> first_id]
    ELSE [ok |-> TRUE,
          db |-> table \cup {StoredRow(first_id + k - 1, rows[k]) : k \in 1..Len(rows)},
          next_id |-> first_id + Len(rows)]

\* the elements of a set of texts in ascending order
RECURSIVE SortTexts(_)
SortTexts(S) ==
    IF S = {} THEN <<>>
    ELSE LET m == CHOOSE x \in S : \A y \in S : y = x \/ TextLess(x, y)
         IN <<m>> \o SortTexts(S \ {m})

db_list_customers(table) == SortTexts({r.musteri : r \in table})

\* ORDER BY tarih, id
RowBefore(a, b) ==
    TextLess(a.tarih, b.tarih) \/ (a.tarih = b.tarih /\ a.id < b.id)

RECURSIVE SortRows(_)
SortRows(S) ==
    IF S = {} THEN <<>>
    ELSE LET m == CHOOSE x \in S : \A y \in S : y = x \/ RowBefore(x, y)
         IN <<m>> \o SortRows(S \ {m})

db_get_transactions(table, musteri) ==
    SortRows({r \in table : r.musteri = musteri})

\* every row up to the id is deleted
db_delete_transaction_upto(table, tx_id) == {r \in table : r.id > tx_id}

db_delete_transaction(table, tx_id) == {r \in table : r.id # tx_id}

(***************************************************************************)
(* Excel IO.                                                               *)
(***************************************************************************)
CellRow(tarih, musteri, islem_turu, ayar, gram, doviz, tutar) ==
    [tarih |-> tarih, musteri |-> musteri, islem_turu |-> islem_turu,
     ayar |-> ayar, gram |-> gram, iscilik_doviz |-> doviz,
     birim_fiyat_veya_nakit |-> tutar]

\* the dict import_from_excel builds of a sheet row (lines 129-139)
ImportedRow(c) ==
    [tarih |-> _to_iso_date(c.tarih),
     musteri |-> CellText(c.musteri),
     islem_turu |-> CellText(c.islem_turu),
     ayar |-> CellText(c.ayar),
     gram |-> IF Truthy(c.gram) THEN c.gram ELSE NumCell(0),
     iscilik_doviz |-> CellText(c.iscilik_doviz),
     birim_fiyat_veya_nakit |->
         IF Truthy(c.birim_fiyat_veya_nakit) THEN c.birim_fiyat_veya_nakit
         ELSE NumCell(0)]

RECURSIVE KeptRows(_)
KeptRows(cells) ==
    IF cells = <<>> THEN <<>>
    ELSE IF ~Truthy(Head(cells).musteri) THEN KeptRows(Tail(cells))
    ELSE <<ImportedRow(Head(cells))>> \o KeptRows(Tail(cells))

\* ok is FALSE where import_from_excel raises ValueError
import_from_excel(wb) ==
    IF ~wb.has_sheet THEN [ok |-> FALSE, rows |-> <<>>]
    ELSE [ok |-> TRUE, rows |-> KeptRows(wb.rows)]

(***************************************************************************)
(* UI (Tkinter).                                                           *)
(***************************************************************************)
\* the sheet rows a user may import: dates as date cells and as texts, a
\* customer with trailing blanks, an empty customer cell (the row is skipped),
\* a numeric purity cell, and quantities and amounts that are not numbers
Satis == <<"S","a","t","dotless_i","s_cedilla">>
Tahsilat == <<"T","a","h","s","i","l","a","t">>
Has == <<"H","a","s">>

CellRows ==
    {CellRow(DateCell(2024, 1, 10), TextCell(CustA), TextCell(Tahsilat),
             TextCell(Has), NumCell(2), TextCell(<<"U","S","D">>), NumCell(3)),
     CellRow(TextCell(<<"5",".","1",".","2","0","2","4">>), TextCell(CustA),
             TextCell(Satis), NumCell(925), NumCell(1), EmptyCell, NumCell(3)),
     CellRow(TextCell(<<"2","0","2","4","/","0","1","/","0","5">>), EmptyCell,
             TextCell(Tahsilat), EmptyCell, EmptyCell, TextCell(<<"T","L">>), NumCell(3)),
     CellRow(TextCell(<<"0","5","/","0","1","/","2","0","2","4">>),
             TextCell(<<"B"," ">>), TextCell(Satis), TextCell(Has),
             TextCell(<<"2">>), TextCell(<<"e","u","r">>), NumCell(3)),
     CellRow(DateCell(2024, 1, 10), TextCell(CustA), TextCell(Satis),
             TextCell(Has), TextCell(<<"a","b","c">>), TextCell(<<"U","S","D">>),
             NumCell(3)),
     CellRow(EmptyCell, TextCell(CustB), TextCell(Satis), TextCell(Has),
             NumCell(2), TextCell(<<"U","S","D">>), TextCell(<<"1",",","5">>)),
     CellRow(DateCell(2024, 1, 10), EmptyCell, TextCell(Satis), TextCell(Has),
             TextCell(<<"a","b","c">>), TextCell(<<"U","S","D">>), NumCell(3))}

\* the workbooks a user may pick: without the sheet, or with up to MaxBatch rows
Workbooks ==
    {[has_sheet |-> FALSE, rows |-> <<>>]}
        \cup UNION {{[has_sheet |-> TRUE, rows |-> f] : f \in [1..n -> CellRows]} :
                        n \in 0..MaxBatch}

\* what a user may type into the dialog
EntryTarih ==
    {<<"2","0","2","4","-","0","1","-","0","7">>,
     <<"2","0","2","4","-","1","-","5">>,
     <<"5",".","1",".","2","0","2","4">>}
EntryGram == {<<"2",",","0">>, <<"a","b","c">>}
EntryTutar == {<<"3">>}
EntryDoviz == {<<"u","s","d">>}

\* App.refresh: the rows the tree shows afterwards
refresh(table, selected, shown) ==
    LET musteri == Strip(selected) IN
    IF musteri = <<>> THEN shown
    ELSE compute_running(db_get_transactions(table, musteri))

InitApp ==
    /\ transactions = <<>>
    /\ out = <<>>
    /\ signs = <<>>
    /\ reordered = <<>>
    /\ out_reordered = <<>>
    /\ pc = "app"
    /\ AppIdle

\* what import_from_excel returns for the workbooks a user may pick
ImportOutcomes == {import_from_excel(wb) : wb \in Workbooks}

\* App.import_excel with the file the user picked
import_excel ==
    \E r \in ImportOutcomes :
        LET ins == db_insert_many(db, next_id, r.rows)
            good == Cardinality({k \in 1..Len(r.rows) : Convertible(r.rows[k])})
        IN
        /\ ins.next_id - 1 <= MaxId
        /\ IF ~r.ok
           THEN /\ msg' = "error"
                /\ last_op' = [NoOp EXCEPT !.name = "import", !.failed = TRUE]
                /\ UNCHANGED <<db, next_id, customer, values, tree>>
           ELSE IF r.rows = <<>>
           THEN /\ msg' = "warning"
                /\ last_op' = [NoOp EXCEPT !.name = "import"]
                /\ UNCHANGED <<db, next_id, customer, values, tree>>
           ELSE IF ~ins.ok
           THEN /\ msg' = "error"
                /\ db' = ins.db
                /\ next_id' = ins.next_id
                /\ last_op' = [NoOp EXCEPT !.name = "import", !.failed = TRUE, !.good = good]
                /\ UNCHANGED <<customer, values, tree>>
           ELSE /\ db' = ins.db
                /\ next_id' = ins.next_id
                /\ values' = db_list_customers(db')
                /\ customer' = IF Strip(customer) = <<>> THEN values'[1] ELSE customer
                /\ tree' = refresh(db', customer', tree)
                /\ msg' = "info"
                /\ last_op' = [NoOp EXCEPT !.name = "import", !.good = good]
        /\ UNCHANGED dlg
        /\ UNCHANGED pureVars

\* <<ComboboxSelected>>: the user picks a customer of the list
select_customer ==
    /\ \E k \in 1..Len(values) :
          /\ customer' = values[k]
          /\ tree' = refresh(db, customer', tree)
    /\ msg' = "none"
    /\ last_op' = [NoOp EXCEPT !.name = "select"]
    /\ UNCHANGED <<db, next_id, values, dlg>>
    /\ UNCHANGED pureVars

\* App.add_dialog: the dialog keeps the customer selected when it opens
add_dialog ==
    /\ pc = "app"
    /\ LET musteri == Strip(customer) IN
       IF musteri = <<>>
       THEN /\ msg' = "warning"
            /\ UNCHANGED dlg
       ELSE /\ msg' = "none"
            /\ dlg' = musteri
    /\ last_op' = [NoOp EXCEPT !.name = "add_dialog"]
    /\ UNCHANGED <<db, next_id, customer, values, tree>>
    /\ UNCHANGED pureVars

\* the entries of the dialog as save reads them (lines 437-450): the check of
\* the date, the two numbers, and the texts it stores
DialogEntries ==
    {[checked |-> strptime(Strip(e_tarih), "%Y-%m-%d").ok,
      gram |-> ParseFloat(ReplaceComma(Strip(e_gram))),
      tutar |-> ParseFloat(ReplaceComma(Strip(e_i))),
      tarih |-> Strip(e_tarih), islem_turu |-> Strip(cb_islem),
      ayar |-> Strip(cb_ayar), iscilik_doviz |-> Strip(e_doviz)] :
        e_tarih \in EntryTarih, e_gram \in EntryGram, e_i \in EntryTutar,
        e_doviz \in EntryDoviz, cb_islem \in {Satis, Tahsilat}, cb_ayar \in {Has}}

\* save, the dialog's Kaydet button
save ==
    /\ dlg # None
    /\ \E e \in DialogEntries :
          LET ins == db_insert_many(db, next_id,
                        <<[tarih |-> e.tarih, musteri |-> dlg,
                           islem_turu |-> e.islem_turu, ayar |-> e.ayar,
                           gram |-> NumCell(e.gram.n),
                           iscilik_doviz |-> e.iscilik_doviz,
                           birim_fiyat_veya_nakit |-> NumCell(e.tutar.n)]>>)
          IN IF e.checked /\ e.gram.ok /\ e.tutar.ok
             THEN /\ next_id <= MaxId
                  /\ db' = ins.db
                  /\ next_id' = ins.next_id
                  /\ dlg' = None
                  /\ tree' = refresh(db', customer, tree)
                  /\ msg' = "none"
                  /\ last_op' = [NoOp EXCEPT !.name = "save"]
             ELSE /\ msg' = "error"
                  /\ last_op' = [NoOp EXCEPT !.name = "save", !.failed = TRUE]
                  /\ UNCHANGED <<db, next_id, dlg, tree>>
    /\ UNCHANGED <<customer, values>>
    /\ UNCHANGED pureVars

\* App.delete_selected on a row of the tree, the question answered yes
delete_selected ==
    /\ \E k \in 1..Len(tree) :
          LET tx_id == tree[k].id IN
          /\ db' = db_delete_transaction(db, tx_id)
          /\ tree' = refresh(db', customer, tree)
          /\ last_op' = [NoOp EXCEPT !.name = "delete", !.id = tx_id, !.pos = k]
    /\ msg' = "none"
    /\ UNCHANGED <<next_id, customer, values, dlg>>
    /\ UNCHANGED pureVars

Next == import_excel \/ select_customer \/ add_dialog \/ save \/ delete_selected

Init == InitApp

Spec == Init /\ [][Next]_vars

(***************************************************************************)
(* The claims about the pure functions, checked under SpecFold.            *)
(***************************************************************************)
Computed == pc # "input"

\* the label as the claims read it: trimmed, letter case ignored
NormType(tx) == Lower(Strip(OrEmpty(tx.islem_turu)))
NormDoviz(tx) == Upper(Strip(OrEmpty(tx.iscilik_doviz)))

IsSale(tx) == NormType(tx) \in {<<"s","a","t","dotless_i","s_cedilla">>, <<"s","a","t","i","s">>}
IsPurchase(tx) == NormType(tx) \in {<<"a","l","dotless_i","s_cedilla">>, <<"a","l","i","s">>}
IsPayment(tx) == NormType(tx) \in {<<"o_umlaut","d","e","m","e">>, <<"o","d","e","m","e">>}
IsCollection(tx) == NormType(tx) = <<"t","a","h","s","i","l","a","t">>

\* the sign table of the specification
TableSign(tx) == IF IsSale(tx) \/ IsPayment(tx) THEN 1 ELSE -1

\* the balances before row k of a computed list
PrevHas(o, k) == IF k = 1 THEN 0 ELSE o[k - 1].bakiye_has
PrevUsd(o, k) == IF k = 1 THEN 0 ELSE o[k - 1].bakiye_usd
PrevEur(o, k) == IF k = 1 THEN 0 ELSE o[k - 1].bakiye_eur
PrevTl(o, k) == IF k = 1 THEN 0 ELSE o[k - 1].bakiye_tl

\* C1: every row's running weight balance is the previous row's (zero before
\* the first row) plus the row's has_gram, whatever the row's currency label.
C1_RunningWeight ==
    Computed =>
        /\ Len(out) = Len(transactions)
        /\ \A k \in 1..Len(out) :
              out[k].bakiye_has = PrevHas(out, k) + out[k].has_gram

C1_Witness ==
    /\ pc = "computed"
    /\ Len(out) = 2
    /\ out[1].bakiye_has # 0
    /\ out[2].has_gram # 0
    /\ NormDoviz(out[2]) = <<"G","B","P">>
    /\ out[2].bakiye_has = out[1].bakiye_has + out[2].has_gram

\* a row of label d adds its iscilik_tutar to the balance d names and to no other
AddsOnlyTo(o, k, which) ==
    /\ o[k].bakiye_usd = PrevUsd(o, k) + (IF which = "usd" THEN o[k].iscilik_tutar ELSE 0)
    /\ o[k].bakiye_eur = PrevEur(o, k) + (IF which = "eur" THEN o[k].iscilik_tutar ELSE 0)
    /\ o[k].bakiye_tl = PrevTl(o, k) + (IF which = "tl" THEN o[k].iscilik_tutar ELSE 0)

\* C2 as stated: a row labelled USD, EUR or TRY (any letter case) adds its
\* monetary contribution to exactly the balance of that currency; the other
\* two balances are those of the previous row.
C2_Original ==
    Computed =>
        \A k \in 1..Len(out) :
            /\ NormDoviz(out[k]) = <<"U","S","D">> => AddsOnlyTo(out, k, "usd")
            /\ NormDoviz(out[k]) = <<"E","U","R">> => AddsOnlyTo(out, k, "eur")
            /\ NormDoviz(out[k]) = <<"T","R","Y">> => AddsOnlyTo(out, k, "tl")

\* C2 amended: the three labels are USD, EUR and TL (any letter case, trimmed):
\* such a row adds its monetary contribution to exactly that balance and the
\* other two are those of the previous row; a row labelled TRY changes none.
C2_OneCurrency ==
    Computed =>
        \A k \in 1..Len(out) :
            /\ NormDoviz(out[k]) = <<"U","S","D">> => AddsOnlyTo(out, k, "usd")
            /\ NormDoviz(out[k]) = <<"E","U","R">> => AddsOnlyTo(out, k, "eur")
            /\ NormDoviz(out[k]) = <<"T","L">> => AddsOnlyTo(out, k, "tl")
            /\ NormDoviz(out[k]) = <<"T","R","Y">> => AddsOnlyTo(out, k, "none")

C2_Witness ==
    /\ pc = "computed"
    /\ Len(out) = 2
    /\ NormDoviz(out[1]) = <<"U","S","D">>
    /\ out[1].bakiye_usd # 0
    /\ NormDoviz(out[2]) = <<"T","L">>
    /\ out[2].iscilik_tutar # 0
    /\ out[2].bakiye_tl = out[2].iscilik_tutar
    /\ out[2].bakiye_usd = out[1].bakiye_usd

\* C3: a row whose currency label is absent or none the program recognizes
\* leaves the three currency balances at the previous row's values, while
\* the weight balance still moves by the row's has_gram.
C3_UnrecognizedCurrency ==
    Computed =>
        \A k \in 1..Len(out) :
            NormDoviz(out[k]) \notin {<<"U","S","D">>, <<"E","U","R">>, <<"T","L">>} =>
                /\ AddsOnlyTo(out, k, "none")
                /\ out[k].bakiye_has = PrevHas(out, k) + out[k].has_gram

C3_Witness ==
    /\ pc = "computed"
    /\ Len(out) = 2
    /\ NormDoviz(out[2]) = <<"G","B","P">>
    /\ out[1].bakiye_usd # 0
    /\ out[2].iscilik_tutar # 0
    /\ out[2].has_gram # 0
    /\ out[2].bakiye_usd = out[1].bakiye_usd
    /\ out[2].bakiye_has # out[1].bakiye_has

\* C4: for every type label the weight sign equals the monetary sign: +1 for
\* Sale and Payment, -1 for Purchase, Collection and every other label.
C4_SignsAgree ==
    pc \in {"signed", "reordered"} =>
        /\ Len(signs) = Len(transactions)
        /\ \A k \in 1..Len(signs) :
              /\ signs[k][1] = signs[k][2]
              /\ signs[k][1] = TableSign(transactions[k])

C4_Witness ==
    /\ pc = "signed"
    /\ Len(signs) = 1
    /\ transactions[1].islem_turu = <<"O","D","E","M","E">>
    /\ signs[1] = <<1, 1>>

\* C5: iscilik_tutar is the monetary sign times gram * amount for Sale and
\* Purchase, and times the amount alone for Payment and Collection.
C5_MonetaryContribution ==
    Computed =>
        \A k \in 1..Len(out) :
            LET tx == transactions[k] IN
            /\ IsSale(tx) \/ IsPurchase(tx) =>
                  out[k].iscilik_tutar
                      = TableSign(tx) * (tx.gram * tx.birim_fiyat_veya_nakit)
            /\ IsPayment(tx) \/ IsCollection(tx) =>
                  out[k].iscilik_tutar = TableSign(tx) * tx.birim_fiyat_veya_nakit

C5_Witness ==
    /\ pc = "computed"
    /\ Len(out) = 1
    /\ IsPurchase(transactions[1])
    /\ transactions[1].gram = 2
    /\ transactions[1].birim_fiyat_veya_nakit = 3
    /\ out[1].iscilik_tutar = -6

\* the coefficient table of the specification, in thousandths
TableCoefficient(ayar) ==
    LET a == Lower(Strip(OrEmpty(ayar))) IN
    IF a \in {<<"p","u","r","e">>, <<"h","a","s">>} THEN 1000
    ELSE IF a \in {<<"9","2","5">>, <<"0",".","9","2","5">>} THEN 925
    ELSE IF a \in {<<"9","3","5">>, <<"0",".","9","3","5">>} THEN 935
    ELSE 0

\* the same table without "pure"
TableCoefficientHas(ayar) ==
    LET a == Lower(Strip(OrEmpty(ayar))) IN
    IF a = <<"h","a","s">> THEN 1000
    ELSE IF a \in {<<"9","2","5">>, <<"0",".","9","2","5">>} THEN 925
    ELSE IF a \in {<<"9","3","5">>, <<"0",".","9","3","5">>} THEN 935
    ELSE 0

\* C6 as stated: has_gram = gram * coefficient * weight sign, the coefficient
\* 1.0 for "pure" and for "has", 0.925, 0.935, and 0 for every other label.
C6_Original ==
    Computed =>
        \A k \in 1..Len(out) :
            out[k].has_gram
                = transactions[k].gram * TableCoefficient(transactions[k].ayar)
                    * TableSign(transactions[k])

\* C6 amended: has_gram = gram * coefficient * weight sign, where only "has"
\* (trimmed, any letter case) has the coefficient 1.0; "pure" has 0 like every
\* other unlisted label.
C6_WeightContribution ==
    Computed =>
        \A k \in 1..Len(out) :
            out[k].has_gram
                = transactions[k].gram * TableCoefficientHas(transactions[k].ayar)
                    * TableSign(transactions[k])

C6_Witness ==
    /\ pc = "computed"
    /\ Len(out) = 1
    /\ transactions[1].ayar = <<"P","u","r","e">>
    /\ transactions[1].gram = 2
    /\ out[1].has_gram = 0

\* the running balances of a computed list
Balances(o) ==
    [k \in 1..Len(o) |-> <<o[k].bakiye_has, o[k].bakiye_usd, o[k].bakiye_eur, o[k].bakiye_tl>>]

\* what each row contributes: its weight, and its amount in the currency the
\* program recognizes (nothing under any other label)
Contributions(o) ==
    [k \in 1..Len(o) |->
        <<o[k].has_gram,
          IF NormDoviz(o[k]) = <<"U","S","D">> THEN o[k].iscilik_tutar ELSE 0,
          IF NormDoviz(o[k]) = <<"E","U","R">> THEN o[k].iscilik_tutar ELSE 0,
          IF NormDoviz(o[k]) = <<"T","L">> THEN o[k].iscilik_tutar ELSE 0>>]

\* some row moves a balance
SomeContribution(o) ==
    \E k \in 1..Len(o) : Contributions(o)[k] # <<0, 0, 0, 0>>

TreeShowsFold ==
    Strip(customer) # <<>> =>
        tree = compute_running(db_get_transactions(db, Strip(customer)))

Minus(a, b) == <<a[1] - b[1], a[2] - b[2], a[3] - b[3], a[4] - b[4]>>

\* a delete_selected step removes exactly the row of the chosen id from the
\* table; the rows shown before it keep their balances and every row shown
\* after it has its balances lowered by exactly the deleted row's contribution
DeleteRemovesOneRow ==
    last_op'.name = "delete" =>
        LET k == last_op'.pos IN
        /\ k \in 1..Len(tree)
        /\ tree[k].id = last_op'.id
        /\ db' = {r \in db : r.id # last_op'.id}
        /\ Cardinality(db') = Cardinality(db) - 1
        /\ Len(tree') = Len(tree) - 1
        /\ \A j \in 1..(k - 1) : tree'[j] = tree[j]
        /\ \A j \in k..Len(tree') :
              /\ tree'[j].id = tree[j + 1].id
              /\ Balances(tree')[j]
                    = Minus(Balances(tree)[j + 1], Contributions(tree)[k])

\* C8: after every import, manual add and delete the tree shows
\* compute_running, from zero, of all the stored rows of the selected
\* customer; a delete removes exactly the row of that id and the rows after
\* it are shown with balances recomputed without its contribution.
C8_BalancesRecomputed == []TreeShowsFold /\ [][DeleteRemovesOneRow]_vars

C8_Witness ==
    /\ last_op.name = "delete"
    /\ last_op.pos <= Len(tree)
    /\ tree[last_op.pos].id < last_op.id
    /\ tree[last_op.pos].has_gram # 0
    /\ tree[last_op.pos].bakiye_has = tree[last_op.pos].has_gram
    /\ Cardinality(db) = 1

\* the calendar date a stored tarih denotes
CalendarDate(tarih) ==
    LET t == strptime(tarih, "%Y-%m-%d") IN <<t.y, t.m, t.d>>

DateBefore(a, b) ==
    \/ a[1] < b[1]
    \/ a[1] = b[1] /\ a[2] < b[2]
    \/ a[1] = b[1] /\ a[2] = b[2] /\ a[3] < b[3]

\* C9: for every customer db_get_transactions returns all and only that
\* customer's rows, by calendar date ascending and, within a date, by id
\* ascending.
C9_DateThenIdOrder ==
    \A c \in {r.musteri : r \in db} :
        LET rows == db_get_transactions(db, c) IN
        /\ {rows[k] : k \in 1..Len(rows)} = {r \in db : r.musteri = c}
        /\ Len(rows) = Cardinality({r \in db : r.musteri = c})
        /\ \A i, j \in 1..Len(rows) :
              i < j =>
                \/ DateBefore(CalendarDate(rows[i].tarih), CalendarDate(rows[j].tarih))
                \/ /\ CalendarDate(rows[i].tarih) = CalendarDate(rows[j].tarih)
                   /\ rows[i].id < rows[j].id

\* an import_excel step that ends in its except branch shows the error and
\* leaves the table as it was
FailedImportCommitsNothing ==
    (last_op'.name = "import" /\ last_op'.failed) =>
        /\ db' = db
        /\ next_id' = next_id
        /\ msg' = "error"

\* C10: an import that fails (sheet absent, or a kept row with a quantity or
\* amount that is not a number) shows an error and inserts none of the rows
\* of its batch.
C10_FailedImportAtomic == [][FailedImportCommitsNothing]_vars

C10_Witness ==
    /\ last_op.name = "import"
    /\ last_op.failed
    /\ last_op.good >= 1
    /\ msg = "error"
    /\ db # {}

====
